---- MODULE Spec2Model ----
(***************************************************************************)
(* Model of simple_brightness_adjust: the ddcutil detect parser            *)
(* (lib/monitor_detector.py), the monitor cache and the brightness         *)
(* controller (lib/ddcutil_wrapper.py).                                    *)
(*                                                                         *)
(* Python strings are sequences of character codes (45 is "-", 52 is "4"), *)
(* so that concatenation, comparison and searching are computed.           *)
(***************************************************************************)
EXTENDS Integers, Sequences, FiniteSets, TLC

VARIABLES
    output,      \* parse_ddcutil_detect: the text handed to the parser, as lines
    monitors,    \* parse_ddcutil_detect: what the call returned
    ppc,         \* parse_ddcutil_detect: "ready" before the call, "done" after
    cache_duration, \* MonitorCache.cache_duration
    file,        \* CACHE_FILE: whether it exists, can be opened, and its text
    now,         \* time.time()
    cret,        \* the MonitorCache call that has just returned, and its result
    stored,      \* the list the last completed set() wrote
    storedAt,    \* the time of that set()
    untouched,   \* the file is as that set() left it
    servedAtLimit, \* a get() served that record at elapsed time cache_duration
    op,          \* the controller call in progress or ended: "get", "set", "none"
    i2c_bus,     \* its i2c_bus argument
    value,       \* its value argument (set_brightness)
    max_retries, \* its max_retries argument
    bus_num,     \* its local bus_num
    attempt,     \* its loop variable
    bpc,         \* "idle", "loop" (at the head of the for loop), "returned", "raised"
    result,      \* what the call returned or raised
    trace,       \* the outcome of every subprocess.run of the call, in order
    disk,        \* concurrent processes: the text of every inode still in use
    link,        \* the inode CACHE_FILE names, -1 when the file does not exist
    proc,        \* each process's MonitorCache call: its position and locals
    passed,      \* the lists passed to the set() calls made so far
    overlap,     \* the lists of the set() calls that overlap the latest one
    clean,       \* no write failure and no removal since those calls began
    absent       \* an invalidate() left no file and no set() has returned since

pvars == <<output, monitors, ppc>>

bvars == <<op, i2c_bus, value, max_retries, bus_num, attempt, bpc, result, trace>>

cvars == <<cache_duration, file, now, cret, stored, storedAt, untouched,
           servedAtLimit>>

xvars == <<disk, link, proc, passed, overlap, clean, absent>>

vars == <<pvars, cvars, bvars, xvars>>

\* ------------------------------------------------------------------ bounds

\* Longest input of arbitrary lines handed to the parser.
MaxLines == 6

\* Most complete device blocks in an input built from whole blocks.
MaxBlocks == 3

\* Largest cache_duration a MonitorCache is constructed with.
MaxDuration == 1

\* How far the clock advances.
MaxTicks == 2

\* Longest monitor list handed to MonitorCache.set.
MaxCached == 2

\* Processes that call MonitorCache concurrently, one call each.
MaxProcs == 3

\* Tokens the buffer of an open file holds: a longer text reaches the file
\* in several writes.
BufferSize == 12

\* Most tokens a failing write leaves in the file, unless it leaves all but
\* the last one.
MaxWritten == 4

\* Largest max_retries a controller call is made with.
MaxRetries == 3

\* ----------------------------------------------------------------- strings

\* a < b for Python strings: lexicographic on the character codes.
StrLess(a, b) ==
    \E k \in 1..(Len(a) + 1) :
        /\ k <= Len(b)
        /\ \A j \in 1..(k - 1) : a[j] = b[j]
        /\ (k = Len(a) + 1 \/ a[k] < b[k])

\* The digits "3" and "4", and the texts the inputs are made of.
ChrDash == <<45>>
StrBus == <<98, 117, 115>>
DevPrefix == <<47, 100, 101, 118, 47, 105, 50, 99, 45>>

\* The characters of s before its first "-": split('-')[0] for split('-')[-1].
BeforeFirstDash(s) ==
    IF \E i \in 1..Len(s) : s[i] = 45
    THEN LET i == CHOOSE i \in 1..Len(s) :
                      s[i] = 45 /\ \A j \in 1..(i - 1) : s[j] # 45
         IN  SubSeq(s, 1, i - 1)
    ELSE s

\* The characters of s after its last "-" (all of s when it has none).
AfterLastDash(s) ==
    IF \E i \in 1..Len(s) : s[i] = 45
    THEN LET i == CHOOSE i \in 1..Len(s) :
                      s[i] = 45 /\ \A j \in (i + 1)..Len(s) : s[j] # 45
         IN  SubSeq(s, i + 1, Len(s))
    ELSE s

\* ----------------------------------------------------------------- Monitor

\* An empty string is falsy.
StrFalsy(s) == s = <<>>

\* Monitor.__post_init__: the stable id a new Monitor ends up with.
PostInit(manufacturer, model, serial, stable_id) ==
    IF StrFalsy(stable_id)
    THEN manufacturer \o ChrDash \o model \o ChrDash \o serial
    ELSE stable_id

\* Monitor(manufacturer, model, serial, i2c_bus, stable_id)
Monitor(manufacturer, model, serial, bus, stable_id) ==
    [manufacturer |-> manufacturer, model |-> model, serial |-> serial,
     i2c_bus |-> bus,
     stable_id |-> PostInit(manufacturer, model, serial, stable_id)]

\* --------------------------------------------------- parse_ddcutil_detect

\* A line of the report is the first pattern it matches, in the order the
\* loop tries them, and the text that pattern captures: "bus" (val the digits
\* of /dev/i2c-<digits>), "mfg", "model", "serial", or "other" for a line
\* that matches none.
Line(kind, val) == [kind |-> kind, val |-> val]

EmptyDict == [k \in {} |-> <<>>]

DictSet(d, key, v) ==
    [k \in (DOMAIN d) \cup {key} |-> IF k = key THEN v ELSE d[k]]

RequiredKeys == {"i2c_bus", "manufacturer", "model", "serial"}

\* _is_monitor_complete
IsMonitorComplete(monitor_dict) ==
    RequiredKeys \subseteq DOMAIN monitor_dict

\* _create_monitor: a KeyError when a key is missing.
CreateMonitor(monitor_dict) ==
    IF RequiredKeys \subseteq DOMAIN monitor_dict
    THEN [raised |-> FALSE,
          monitor |-> Monitor(monitor_dict["manufacturer"], monitor_dict["model"],
                              monitor_dict["serial"], monitor_dict["i2c_bus"], <<>>)]
    ELSE [raised |-> TRUE, monitor |-> Monitor(<<>>, <<>>, <<>>, <<>>, <<>>)]

\* The state of the line loop: the monitors appended so far, the block being
\* collected, and whether an exception has ended the call.
LoopInit == [monitors |-> <<>>, current |-> EmptyDict, raised |-> FALSE]

\* "Save previous monitor if complete".
SaveIfComplete(st) ==
    IF IsMonitorComplete(st.current)
    THEN LET c == CreateMonitor(st.current)
         IN  IF c.raised
             THEN [st EXCEPT !.raised = TRUE]
             ELSE [st EXCEPT !.monitors = Append(@, c.monitor)]
    ELSE st

\* The bus branch as a plausible slip: the new block keeps the old fields.
StartBlockNoReset(st, line) ==
    [SaveIfComplete(st) EXCEPT
        !.current = DictSet(st.current, "i2c_bus", DevPrefix \o line.val)]

\* The bus branch of the loop: save the previous block, start a new one.
StartBlock(st, line) ==
    [SaveIfComplete(st) EXCEPT
        !.current = DictSet(EmptyDict, "i2c_bus", DevPrefix \o line.val)]

\* One iteration of the line loop.
LoopStep(st, line) ==
    IF st.raised THEN st
    ELSE IF line.kind = "bus" THEN StartBlock(st, line)
    ELSE IF line.kind = "mfg" /\ DOMAIN st.current # {}
         THEN [st EXCEPT !.current = DictSet(@, "manufacturer", line.val)]
    ELSE IF line.kind = "model" /\ DOMAIN st.current # {}
         THEN [st EXCEPT !.current = DictSet(@, "model", line.val)]
    ELSE IF line.kind = "serial" /\ DOMAIN st.current # {}
         THEN [st EXCEPT !.current = DictSet(@, "serial", line.val)]
    ELSE st

RECURSIVE LineLoop(_, _)
LineLoop(st, lines) ==
    IF lines = <<>> THEN st
    ELSE LineLoop(LoopStep(st, Head(lines)), Tail(lines))

\* monitors.sort(key=lambda m: m.stable_id): a stable sort.
RECURSIVE SortByStableId(_)
SortByStableId(ms) ==
    IF ms = <<>> THEN <<>>
    ELSE LET front == SortByStableId(SubSeq(ms, 1, Len(ms) - 1))
             x == ms[Len(ms)]
             p == Cardinality({i \in 1..Len(front) :
                                  ~StrLess(x.stable_id, front[i].stable_id)})
         IN  SubSeq(front, 1, p) \o <<x>> \o SubSeq(front, p + 1, Len(front))

\* The duplicate pass recording the id a monitor had before its suffix.
RECURSIVE DisambiguateSeenOld(_, _)
DisambiguateSeenOld(ms, seen_ids) ==
    IF ms = <<>> THEN <<>>
    ELSE LET m == Head(ms)
             num == AfterLastDash(m.i2c_bus)
             id == IF m.stable_id \in seen_ids
                   THEN m.stable_id \o ChrDash \o StrBus \o num
                   ELSE m.stable_id
         IN  <<[m EXCEPT !.stable_id = id]>>
                 \o DisambiguateSeenOld(Tail(ms), seen_ids \cup {m.stable_id})

\* The duplicate pass: a monitor whose id was seen gets -bus<N> appended.
RECURSIVE Disambiguate(_, _)
Disambiguate(ms, seen_ids) ==
    IF ms = <<>> THEN <<>>
    ELSE LET m == Head(ms)
             num == AfterLastDash(m.i2c_bus)
             id == IF m.stable_id \in seen_ids
                   THEN m.stable_id \o ChrDash \o StrBus \o num
                   ELSE m.stable_id
         IN  <<[m EXCEPT !.stable_id = id]>>
                 \o Disambiguate(Tail(ms), seen_ids \cup {id})

\* parse_ddcutil_detect(output): what the call returns, or raised.
ParseDdcutilDetect(lines) ==
    LET st == SaveIfComplete(LineLoop(LoopInit, lines))
    IN  IF st.raised
        THEN [raised |-> TRUE, monitors |-> <<>>]
        ELSE [raised |-> FALSE,
              monitors |-> Disambiguate(SortByStableId(st.monitors), {})]

\* ------------------------------------------------------------ parser inputs

Seqs(S, n) == UNION {[1..k -> S] : k \in 0..n}

StrA == <<65>>
StrM == <<77>>
StrS == <<83>>
StrSbus4 == <<83, 45, 98, 117, 115, 52>>
StrS1 == <<83, 45, 49>>
Dig3 == <<51>>
Dig4 == <<52>>
Dig5 == <<53>>

LineSet ==
    {Line("bus", Dig3), Line("bus", Dig4), Line("mfg", StrA),
     Line("model", StrM), Line("serial", StrS), Line("other", <<>>)}

\* A whole device block, its lines in the order of the docstring's example.
Block(bus, mfg, model, serial) ==
    <<Line("bus", bus), Line("mfg", mfg), Line("model", model),
      Line("serial", serial)>>

BlockSet ==
    {Block(b, StrA, StrM, s) : b \in {Dig3, Dig4, Dig5},
                               s \in {StrS, StrSbus4, StrS1}}

RECURSIVE Flatten(_)
Flatten(ss) == IF ss = <<>> THEN <<>> ELSE Head(ss) \o Flatten(Tail(ss))

Inputs ==
    Seqs(LineSet, MaxLines) \cup {Flatten(bs) : bs \in Seqs(BlockSet, MaxBlocks)}

\* ------------------------------------------------------------------- json

\* The text of the cache file is a sequence of JSON tokens; "key" is a member
\* name with its colon. k is a member name, s a string's characters, n a number.
Tok(t) == [t |-> t, k |-> "", s |-> <<>>, n |-> 0]
TKey(k) == [t |-> "key", k |-> k, s |-> <<>>, n |-> 0]
TStr(s) == [t |-> "str", k |-> "", s |-> s, n |-> 0]
TNum(n) == [t |-> "num", k |-> "", s |-> <<>>, n |-> n]

\* The Python values json.load yields and json.dump takes: None, a number, a
\* str, a list (items), a dict (keys with their items, in order).
JNull == [t |-> "null", n |-> 0, s |-> <<>>, keys |-> <<>>, items |-> <<>>]
JNum(n) == [t |-> "num", n |-> n, s |-> <<>>, keys |-> <<>>, items |-> <<>>]
JStr(s) == [t |-> "str", n |-> 0, s |-> s, keys |-> <<>>, items |-> <<>>]
JArr(items) == [t |-> "arr", n |-> 0, s |-> <<>>, keys |-> <<>>, items |-> items]
JObj(keys, items) == [t |-> "obj", n |-> 0, s |-> <<>>, keys |-> keys, items |-> items]

\* json.dump(data, f): the tokens written, in order.
RECURSIVE Dumps(_)
RECURSIVE DumpItems(_)
RECURSIVE DumpMembers(_, _)
Dumps(v) ==
    CASE v.t = "null" -> <<Tok("null")>>
      [] v.t = "num" -> <<TNum(v.n)>>
      [] v.t = "str" -> <<TStr(v.s)>>
      [] v.t = "arr" -> <<Tok("[")>> \o DumpItems(v.items) \o <<Tok("]")>>
      [] v.t = "obj" -> <<Tok("{")>> \o DumpMembers(v.keys, v.items) \o <<Tok("}")>>
DumpItems(items) ==
    IF items = <<>> THEN <<>>
    ELSE IF Len(items) = 1 THEN Dumps(items[1])
    ELSE Dumps(items[1]) \o <<Tok(",")>> \o DumpItems(Tail(items))
DumpMembers(keys, items) ==
    IF keys = <<>> THEN <<>>
    ELSE IF Len(keys) = 1 THEN <<TKey(keys[1])>> \o Dumps(items[1])
    ELSE <<TKey(keys[1])>> \o Dumps(items[1]) \o <<Tok(",")>>
             \o DumpMembers(Tail(keys), Tail(items))

\* json.load(f): a value read from position i on, and the position after it.
ParseFail == [ok |-> FALSE, val |-> JNull, next |-> 0]
ParseOk(v, next) == [ok |-> TRUE, val |-> v, next |-> next]

RECURSIVE ParseValue(_, _)
RECURSIVE ParseElems(_, _, _)
RECURSIVE ParseMembers(_, _, _, _)
ParseValue(toks, i) ==
    IF i > Len(toks) THEN ParseFail
    ELSE LET tk == toks[i]
         IN  CASE tk.t = "null" -> ParseOk(JNull, i + 1)
               [] tk.t = "num" -> ParseOk(JNum(tk.n), i + 1)
               [] tk.t = "str" -> ParseOk(JStr(tk.s), i + 1)
               [] tk.t = "[" ->
                    IF i + 1 <= Len(toks) /\ toks[i + 1].t = "]"
                    THEN ParseOk(JArr(<<>>), i + 2)
                    ELSE ParseElems(toks, i + 1, <<>>)
               [] tk.t = "{" ->
                    IF i + 1 <= Len(toks) /\ toks[i + 1].t = "}"
                    THEN ParseOk(JObj(<<>>, <<>>), i + 2)
                    ELSE ParseMembers(toks, i + 1, <<>>, <<>>)
               [] OTHER -> ParseFail
ParseElems(toks, i, acc) ==
    LET r == ParseValue(toks, i)
    IN  IF ~r.ok \/ r.next > Len(toks) THEN ParseFail
        ELSE IF toks[r.next].t = ","
             THEN ParseElems(toks, r.next + 1, Append(acc, r.val))
        ELSE IF toks[r.next].t = "]"
             THEN ParseOk(JArr(Append(acc, r.val)), r.next + 1)
        ELSE ParseFail
ParseMembers(toks, i, keys, items) ==
    IF i > Len(toks) \/ toks[i].t # "key" THEN ParseFail
    ELSE LET r == ParseValue(toks, i + 1)
         IN  IF ~r.ok \/ r.next > Len(toks) THEN ParseFail
             ELSE IF toks[r.next].t = ","
                  THEN ParseMembers(toks, r.next + 1, Append(keys, toks[i].k),
                                    Append(items, r.val))
             ELSE IF toks[r.next].t = "}"
                  THEN ParseOk(JObj(Append(keys, toks[i].k), Append(items, r.val)),
                               r.next + 1)
             ELSE ParseFail

\* json.load: the whole text must be one value; otherwise JSONDecodeError.
JsonLoad(toks) ==
    LET r == ParseValue(toks, 1)
    IN  IF r.ok /\ r.next = Len(toks) + 1 THEN r ELSE ParseFail

\* key in d, and d[key]: the last member of that name counts.
HasKey(d, key) == \E i \in 1..Len(d.keys) : d.keys[i] = key
Lookup(d, key) ==
    d.items[CHOOSE i \in 1..Len(d.keys) :
                d.keys[i] = key /\ \A j \in (i + 1)..Len(d.keys) : d.keys[j] # key]

\* ----------------------------------------------------------- MonitorCache

MonitorKeys == <<"stable_id", "manufacturer", "model", "serial", "i2c_bus">>

\* The dict set() builds for a monitor, with model and serial swapped.
MonitorDictSwapped(m) ==
    JObj(MonitorKeys,
         <<JStr(m.stable_id), JStr(m.manufacturer), JStr(m.serial),
           JStr(m.model), JStr(m.i2c_bus)>>)

\* The dict set() builds for a monitor.
MonitorDict(m) ==
    JObj(MonitorKeys,
         <<JStr(m.stable_id), JStr(m.manufacturer), JStr(m.model),
           JStr(m.serial), JStr(m.i2c_bus)>>)

\* The data set() builds: the time and every monitor's five fields.
CacheData(t, ms) ==
    JObj(<<"timestamp", "monitors">>,
         <<JNum(t), JArr([i \in 1..Len(ms) |-> MonitorDict(ms[i])])>>)

NoFile == [exists |-> FALSE, access |-> TRUE, text |-> <<>>]
FileOf(text) == [exists |-> TRUE, access |-> TRUE, text |-> text]
NoAccessFile == [exists |-> TRUE, access |-> FALSE, text |-> <<>>]

\* What a MonitorCache call hands back.
RetNone == [kind |-> "none", exc |-> "", monitors |-> <<>>]
RetList(ms) == [kind |-> "list", exc |-> "", monitors |-> ms]
Raise(exc) == [kind |-> "raise", exc |-> exc, monitors |-> <<>>]

\* The freshness test one time unit late.
StaleLate(t, timestamp, duration) == t - timestamp > duration + 1

\* get(): time.time() - data.get('timestamp', 0) > self.cache_duration
Stale(t, timestamp, duration) == t - timestamp > duration

\* bool(v) is False.
Falsy(v) ==
    \/ v.t = "null"
    \/ v.t = "num" /\ v.n = 0
    \/ v.t = "str" /\ v.s = <<>>
    \/ v.t = "arr" /\ v.items = <<>>
    \/ v.t = "obj" /\ v.keys = <<>>

\* The text of a field value; the files of this model hold strings in the
\* fields of an entry, a value of another type is shown as "?".
StrOf(v) == IF v.t = "str" THEN v.s ELSE <<63>>

\* What iterating data['monitors'] yields: the items of a list, the
\* characters of a str, the keys of a dict (strs); "TypeError" for the rest.
Iterable(v) == v.t \in {"arr", "str", "obj"}
Iterate(v) ==
    CASE v.t = "arr" -> v.items
      [] v.t = "str" -> [i \in 1..Len(v.s) |-> JStr(<<v.s[i]>>)]
      [] v.t = "obj" -> [i \in 1..Len(v.keys) |-> JStr(<<>>)]
      [] OTHER -> <<>>

\* The exception Monitor(manufacturer=m['manufacturer'], ...) raises for
\* entry m, "" when it raises none.
EntryError(m) ==
    IF m.t # "obj" THEN "TypeError"
    ELSE IF \E i \in 1..Len(MonitorKeys) : ~HasKey(m, MonitorKeys[i])
         THEN "KeyError"
    ELSE ""

\* The Monitor get() builds from entry m.
EntryMonitor(m) ==
    Monitor(StrOf(Lookup(m, "manufacturer")), StrOf(Lookup(m, "model")),
            StrOf(Lookup(m, "serial")), StrOf(Lookup(m, "i2c_bus")),
            IF Falsy(Lookup(m, "stable_id")) THEN <<>>
            ELSE StrOf(Lookup(m, "stable_id")))

\* The list comprehension of get(): the first entry that raises ends it.
BuildList(v) ==
    IF ~Iterable(v) THEN Raise("TypeError")
    ELSE LET items == Iterate(v)
             bad == {i \in 1..Len(items) : EntryError(items[i]) # ""}
         IN  IF bad # {}
             THEN Raise(EntryError(items[CHOOSE i \in bad : \A j \in bad : i <= j]))
             ELSE RetList([i \in 1..Len(items) |-> EntryMonitor(items[i])])

\* The body of get()'s try block.
GetBody(f, t, duration) ==
    IF ~f.exists THEN RetNone
    ELSE IF ~f.access THEN Raise("OSError")
    ELSE LET r == JsonLoad(f.text)
             data == r.val
             timestamp == IF HasKey(data, "timestamp")
                          THEN Lookup(data, "timestamp") ELSE JNum(0)
         IN  IF ~r.ok THEN Raise("JSONDecodeError")
             ELSE IF data.t # "obj" THEN Raise("AttributeError")
             ELSE IF timestamp.t # "num" THEN Raise("TypeError")
             ELSE IF Stale(t, timestamp.n, duration) THEN RetNone
             ELSE IF ~HasKey(data, "monitors") THEN Raise("KeyError")
             ELSE BuildList(Lookup(data, "monitors"))

\* except (json.JSONDecodeError, OSError, KeyError)
CaughtByGet == {"JSONDecodeError", "OSError", "KeyError"}

\* MonitorCache.get
CacheGet(f, t, duration) ==
    LET r == GetBody(f, t, duration)
    IN  IF r.kind = "raise" /\ r.exc \in CaughtByGet THEN RetNone ELSE r

\* ------------------------------------------------------------ cache inputs

\* The start of the clock: time.time() is far beyond any cache_duration.
Epoch == MaxDuration + 1

MonA3 == Monitor(StrA, StrM, StrS, DevPrefix \o Dig3, <<>>)
MonA4 == Monitor(StrA, StrM, StrS, DevPrefix \o Dig4,
                 StrA \o ChrDash \o StrM \o ChrDash \o StrSbus4)

MonitorSet == {MonA3, MonA4}

MonitorLists == Seqs(MonitorSet, MaxCached)

\* An entry as another writer may leave it: an empty stable_id, a field short.
EntryNoId ==
    JObj(MonitorKeys,
         <<JStr(<<>>), JStr(StrA), JStr(StrM), JStr(StrS), JStr(DevPrefix \o Dig3)>>)
EntryShort ==
    JObj(<<"stable_id", "manufacturer", "model", "serial">>,
         <<JStr(StrA), JStr(StrA), JStr(StrM), JStr(StrS)>>)

Record(timestamp, mons) == JObj(<<"timestamp", "monitors">>, <<timestamp, mons>>)

\* The values another writer, or a fault, may leave in the file with
\* timestamp t: well-formed records and values of the wrong structure.
ForeignValues(t) ==
    {JArr(<<>>), JNull, JNum(t), JStr(StrA),
     JObj(<<>>, <<>>),
     JObj(<<"timestamp">>, <<JNum(t)>>),
     JObj(<<"monitors">>, <<JArr(<<>>)>>),
     Record(JStr(StrA), JArr(<<>>)),
     Record(JNull, JArr(<<>>)),
     Record(JNum(t), JNum(5)),
     Record(JNum(t), JNull),
     Record(JNum(t), JStr(<<>>)),
     Record(JNum(t), JStr(StrA)),
     Record(JNum(t), JObj(<<>>, <<>>)),
     Record(JNum(t), JObj(<<"stable_id">>, <<JStr(StrA)>>)),
     Record(JNum(t), JArr(<<JNum(1)>>)),
     Record(JNum(t), JArr(<<JStr(StrA)>>)),
     Record(JNum(t), JArr(<<JArr(<<>>)>>)),
     Record(JNum(t), JArr(<<JObj(<<>>, <<>>)>>)),
     Record(JNum(t), JArr(<<EntryShort>>)),
     Record(JNum(t), JArr(<<EntryShort, JNum(1)>>)),
     Record(JNum(t), JArr(<<MonitorDict(MonA3), JNum(1)>>)),
     Record(JNum(t), JArr(<<EntryNoId>>)),
     CacheData(t, <<MonA4, MonA3>>)}

\* The states another writer, or a fault, may leave the file in.
ForeignFiles(t) ==
    {NoFile, NoAccessFile, FileOf(<<>>), FileOf(<<Tok("junk")>>),
     FileOf(Dumps(CacheData(t, <<>>)) \o <<Tok("}")>>)}
        \cup {FileOf(Dumps(v)) : v \in ForeignValues(t)}

\* ------------------------------------------------------ specification: cache

NoCall == [op |-> "none", kind |-> "none", exc |-> "", monitors |-> <<>>]
Returned(call, r) ==
    [op |-> call, kind |-> r.kind, exc |-> r.exc, monitors |-> r.monitors]

NoOutcome == [kind |-> "none", cond |-> "", what |-> "", text |-> <<>>, value |-> 0]

\* A process that has made no call: no position in a call, no open file.
NoProcess ==
    [pc |-> "idle", call |-> "none", list |-> <<>>, text |-> <<>>, pos |-> 0,
     fd |-> -1, ret |-> RetNone, after |-> ""]

Procs == 1..MaxProcs

Inodes == 0..MaxProcs

RaceIdle ==
    /\ disk = [i \in Inodes |-> <<>>]
    /\ link = -1
    /\ proc = [p \in Procs |-> NoProcess]
    /\ passed = {}
    /\ overlap = {}
    /\ clean = TRUE
    /\ absent = FALSE

ControllerIdle ==
    /\ op = "none"
    /\ i2c_bus = <<>>
    /\ value = 0
    /\ max_retries = 0
    /\ bus_num = <<>>
    /\ attempt = 0
    /\ bpc = "idle"
    /\ result = NoOutcome
    /\ trace = <<>>

CacheIdle ==
    /\ cache_duration = 0
    /\ file = NoFile
    /\ now = Epoch
    /\ cret = NoCall
    /\ stored = <<>>
    /\ storedAt = 0
    /\ untouched = FALSE
    /\ servedAtLimit = FALSE

ParserIdle ==
    /\ output = <<>>
    /\ monitors = [raised |-> FALSE, monitors |-> <<>>]
    /\ ppc = "ready"

\* MonitorCache(cache_duration), the file not yet written.
CacheInit ==
    /\ cache_duration \in 0..MaxDuration
    /\ file = NoFile
    /\ now = Epoch
    /\ cret = NoCall
    /\ stored = <<>>
    /\ storedAt = 0
    /\ untouched = FALSE
    /\ servedAtLimit = FALSE
    /\ ParserIdle
    /\ ControllerIdle
    /\ RaceIdle

\* MonitorCache.get()
Get ==
    /\ cret' = Returned("get", CacheGet(file, now, cache_duration))
    /\ servedAtLimit' =
          (servedAtLimit \/ (untouched /\ cret'.kind = "list"
                                /\ now - storedAt = cache_duration))
    /\ UNCHANGED <<cache_duration, file, now, stored, storedAt, untouched>>

Forget ==
    /\ stored' = <<>>
    /\ storedAt' = 0
    /\ untouched' = FALSE
    /\ servedAtLimit' = FALSE

\* MonitorCache.set(ms): the data is written whole.
SetWritten(ms, text) ==
    /\ ~file.exists \/ file.access
    /\ file' = FileOf(text)
    /\ cret' = Returned("set", RetNone)
    /\ stored' = ms
    /\ storedAt' = now
    /\ untouched' = TRUE
    /\ servedAtLimit' = FALSE
    /\ UNCHANGED <<cache_duration, now>>

\* MonitorCache.set(ms): open() raises OSError, a warning is printed.
SetOpenFails(ms) ==
    /\ cret' = Returned("set", RetNone)
    /\ UNCHANGED <<cache_duration, file, now, stored, storedAt, untouched,
                   servedAtLimit>>

\* MonitorCache.set(ms): open() has truncated the file and json.dump raises
\* OSError after n tokens; a warning is printed.
SetWriteFails(text, n) ==
    /\ ~file.exists \/ file.access
    /\ n <= MaxWritten \/ n = Len(text) - 1
    /\ file' = FileOf(SubSeq(text, 1, n))
    /\ cret' = Returned("set", RetNone)
    /\ Forget
    /\ UNCHANGED <<cache_duration, now>>

Set ==
    \E ms \in MonitorLists :
        \E text \in {Dumps(CacheData(now, ms))} :
            \/ SetWritten(ms, text)
            \/ SetOpenFails(ms)
            \/ \E n \in 0..(Len(text) - 1) : SetWriteFails(text, n)

\* MonitorCache.invalidate(): the file is removed, or unlink() raises
\* OSError, which is swallowed.
Invalidate ==
    /\ \/ file' = NoFile
       \/ file.exists /\ file' = file
    /\ cret' = Returned("invalidate", RetNone)
    /\ Forget
    /\ UNCHANGED <<cache_duration, now>>

\* The clock advances.
Tick ==
    /\ now < Epoch + MaxTicks
    /\ now' = now + 1
    /\ cret' = NoCall
    /\ UNCHANGED <<cache_duration, file, stored, storedAt, untouched,
                   servedAtLimit>>

\* Another process, or a fault, leaves the file in another state.
Foreign ==
    /\ \E t \in {0, now} : file' \in ForeignFiles(t)
    /\ cret' = NoCall
    /\ Forget
    /\ UNCHANGED <<cache_duration, now>>

CacheNext ==
    \/ Get /\ UNCHANGED <<pvars, bvars, xvars>>
    \/ Set /\ UNCHANGED <<pvars, bvars, xvars>>
    \/ Invalidate /\ UNCHANGED <<pvars, bvars, xvars>>
    \/ Tick /\ UNCHANGED <<pvars, bvars, xvars>>
    \/ Foreign /\ UNCHANGED <<pvars, bvars, xvars>>

CacheSpec == CacheInit /\ [][CacheNext]_vars

\* --------------------------------------- specification: concurrent processes

\* Independent processes call get(), set() and invalidate() on the one cache
\* file, a call being a sequence of file operations: exists(), open(), the
\* read of json.load, the writes of json.dump and close(), unlink(). An open
\* file is an inode: it outlives unlink() for the processes that hold it, and
\* every writer writes at its own offset.

\* The lists concurrent set() calls are handed: texts of two lengths, and
\* two of one length that differ in the first and in the last field.
RaceLists == {<<>>, <<MonA3>>, <<MonA4>>}

\* FileNotFoundError and PermissionError are subclasses of OSError.
OSErrors == {"OSError", "FileNotFoundError", "PermissionError"}

\* An except clause naming the classes in clause catches exc.
CaughtBy(exc, clause) ==
    exc \in clause \/ (exc \in OSErrors /\ "OSError" \in clause)

\* invalidate() with an except clause for PermissionError alone.
InvalidateCatchesDenied(exc) == CaughtBy(exc, {"PermissionError"})

\* invalidate(): except OSError
InvalidateCatches(exc) == CaughtBy(exc, {"OSError"})

\* What a call that raised exc inside its try block hands back: None, with
\* the exception its except clause swallowed, or the exception.
AfterTry(exc, caught) ==
    IF caught THEN [RetNone EXCEPT !.exc = exc] ELSE Raise(exc)

\* A zero byte of a hole: what a write beyond the end of a file leaves
\* between the old end and the offset.
Hole(n) == [i \in 1..n |-> Tok("nul")]

\* write(chunk) at offset pos of a file holding text.
WriteAt(text, pos, chunk) ==
    IF pos >= Len(text)
    THEN text \o Hole(pos - Len(text)) \o chunk
    ELSE SubSeq(text, 1, pos) \o chunk
             \o SubSeq(text, pos + Len(chunk) + 1, Len(text))

\* The processes other than p that hold inode i open.
HeldByOther(p, i) == \E q \in Procs \ {p} : proc[q].fd = i

\* An inode no name and no process refers to.
FreeInode ==
    CHOOSE i \in Inodes :
        /\ i # link
        /\ \A q \in Procs : proc[q].fd # i
        /\ \A j \in Inodes :
               (j # link /\ \A q \in Procs : proc[q].fd # j) => i <= j

\* Process p closes inode i: gone when no name and no other process has it.
Closed(d, p, i, name) ==
    IF i = -1 \/ i = name \/ HeldByOther(p, i) THEN d
    ELSE [d EXCEPT ![i] = <<>>]

SetInProgress == \E q \in Procs : proc[q].pc \in {"s_open", "s_write"}

\* The call of process p has returned r; its locals are gone.
Done(p, r) ==
    [proc[p] EXCEPT !.pc = "done", !.fd = -1, !.ret = r, !.text = <<>>,
                    !.pos = 0]

\* The get() calls in progress no longer count as made after what `what`
\* names ("invalidate", "sets", or "all").
Disturbed(pr, what) ==
    [q \in Procs |->
        IF pr[q].pc \in {"g_open", "g_load"} /\ (what = "all" \/ pr[q].after = what)
        THEN [pr[q] EXCEPT !.after = ""]
        ELSE pr[q]]

\* What a get() that starts now is made after: an invalidate() that left no
\* file with no set() returned since, or set() calls that have all returned
\* without a failure or a removal.
StartsAfter ==
    IF absent THEN "invalidate"
    ELSE IF ~SetInProgress /\ clean /\ overlap # {} THEN "sets"
    ELSE ""

\* Process p makes its call: the processes are alike, so they are numbered
\* in the order of their calls.
Starts(p) ==
    /\ proc[p].pc = "idle"
    /\ \A q \in 1..(p - 1) : proc[q].pc # "idle"

\* get() up to CACHE_FILE.exists(): None when there is no file.
RaceStartGet(p) ==
    /\ Starts(p)
    /\ proc' = [proc EXCEPT ![p] =
                   IF link = -1
                   THEN [Done(p, RetNone) EXCEPT !.call = "get", !.after = StartsAfter]
                   ELSE [@ EXCEPT !.pc = "g_open", !.call = "get",
                                  !.after = StartsAfter]]
    /\ UNCHANGED <<disk, link, passed, overlap, clean, absent>>

\* get(): open(CACHE_FILE), FileNotFoundError when the file has been removed
\* since the check.
RaceGetOpen(p) ==
    /\ proc[p].pc = "g_open"
    /\ proc' = [proc EXCEPT ![p] =
                   IF link = -1
                   THEN Done(p, AfterTry("FileNotFoundError",
                                         CaughtBy("FileNotFoundError", CaughtByGet)))
                   ELSE [@ EXCEPT !.pc = "g_load", !.fd = link]]
    /\ UNCHANGED <<disk, link, passed, overlap, clean, absent>>

\* get(): json.load reads the open file, whatever it holds by now, and the
\* rest of the call runs on the value read.
RaceGetLoad(p) ==
    /\ proc[p].pc = "g_load"
    /\ proc' = [proc EXCEPT ![p] =
                   Done(p, CacheGet(FileOf(disk[proc[p].fd]), now, cache_duration))]
    /\ disk' = Closed(disk, p, proc[p].fd, link)
    /\ UNCHANGED <<link, passed, overlap, clean, absent>>

\* set(ms): the data is built, with the time of the call.
RaceStartSet(p, ms) ==
    /\ Starts(p)
    /\ proc' = [Disturbed(proc, "sets") EXCEPT ![p] =
                   [@ EXCEPT !.pc = "s_open", !.call = "set", !.list = ms,
                             !.text = Dumps(CacheData(now, ms))]]
    /\ passed' = passed \cup {ms}
    /\ overlap' = IF SetInProgress THEN overlap \cup {ms} ELSE {ms}
    /\ clean' = (SetInProgress => clean)
    /\ UNCHANGED <<disk, link, absent>>

\* set(): open(CACHE_FILE, 'w') creates the file or truncates it.
RaceSetOpen(p) ==
    /\ proc[p].pc = "s_open"
    /\ LET i == IF link = -1 THEN FreeInode ELSE link
       IN  /\ link' = i
           /\ disk' = [disk EXCEPT ![i] = <<>>]
           /\ proc' = [proc EXCEPT ![p] = [@ EXCEPT !.pc = "s_write", !.fd = i,
                                                     !.pos = 0]]
    /\ UNCHANGED <<passed, overlap, clean, absent>>

\* set(): the next bufferful of json.dump reaches the file at this writer's
\* offset; with the last one the file is closed and the call returns.
RaceSetWrite(p) ==
    /\ proc[p].pc = "s_write"
    /\ LET me == proc[p]
           upto == IF me.pos + BufferSize < Len(me.text)
                   THEN me.pos + BufferSize ELSE Len(me.text)
           written == [disk EXCEPT ![me.fd] =
                          WriteAt(@, me.pos, SubSeq(me.text, me.pos + 1, upto))]
       IN  IF upto = Len(me.text)
           THEN /\ proc' = [Disturbed(proc, "invalidate") EXCEPT ![p] =
                               Done(p, RetNone)]
                /\ disk' = Closed(written, p, me.fd, link)
                /\ absent' = FALSE
           ELSE /\ proc' = [proc EXCEPT ![p] = [@ EXCEPT !.pos = upto]]
                /\ disk' = written
                /\ absent' = absent
    /\ UNCHANGED <<link, passed, overlap, clean>>

\* set(): open() or a write raises OSError; a warning is printed.
RaceSetFails(p) ==
    /\ proc[p].pc \in {"s_open", "s_write"}
    /\ proc' = [proc EXCEPT ![p] = Done(p, RetNone)]
    /\ disk' = Closed(disk, p, proc[p].fd, link)
    /\ clean' = FALSE
    /\ UNCHANGED <<link, passed, overlap, absent>>

\* invalidate() up to CACHE_FILE.exists(): nothing to do without a file.
RaceStartInvalidate(p) ==
    /\ Starts(p)
    /\ proc' = [proc EXCEPT ![p] =
                   IF link = -1
                   THEN [Done(p, RetNone) EXCEPT !.call = "invalidate"]
                   ELSE [@ EXCEPT !.pc = "i_unlink", !.call = "invalidate"]]
    /\ absent' = (absent \/ link = -1)
    /\ UNCHANGED <<disk, link, passed, overlap, clean>>

\* invalidate(): CACHE_FILE.unlink() removes the name, FileNotFoundError
\* when another process has removed it since the check.
RaceInvalidateUnlink(p) ==
    /\ proc[p].pc = "i_unlink"
    /\ IF link = -1
       THEN /\ proc' = [proc EXCEPT ![p] =
                           Done(p, AfterTry("FileNotFoundError",
                                            InvalidateCatches("FileNotFoundError")))]
            /\ UNCHANGED <<disk, link, clean>>
       ELSE /\ proc' = [Disturbed(proc, "sets") EXCEPT ![p] = Done(p, RetNone)]
            /\ link' = -1
            /\ disk' = Closed(disk, p, link, -1)
            /\ clean' = FALSE
    /\ absent' = TRUE
    /\ UNCHANGED <<passed, overlap>>

\* invalidate(): unlink() raises PermissionError and the file stays.
RaceInvalidateDenied(p) ==
    /\ proc[p].pc = "i_unlink"
    /\ link # -1
    /\ proc' = [proc EXCEPT ![p] =
                   Done(p, AfterTry("PermissionError",
                                    InvalidateCatches("PermissionError")))]
    /\ UNCHANGED <<disk, link, passed, overlap, clean, absent>>

\* MonitorCache(MaxDuration) in every process, the file not yet written.
RaceInit ==
    /\ RaceIdle
    /\ cache_duration = MaxDuration
    /\ file = NoFile
    /\ now = Epoch
    /\ cret = NoCall
    /\ stored = <<>>
    /\ storedAt = 0
    /\ untouched = FALSE
    /\ servedAtLimit = FALSE
    /\ ParserIdle
    /\ ControllerIdle

RaceNext ==
    \E p \in Procs :
        \/ RaceStartGet(p) /\ UNCHANGED <<pvars, cvars, bvars>>
        \/ RaceGetOpen(p) /\ UNCHANGED <<pvars, cvars, bvars>>
        \/ RaceGetLoad(p) /\ UNCHANGED <<pvars, cvars, bvars>>
        \/ (\E ms \in RaceLists : RaceStartSet(p, ms))
              /\ UNCHANGED <<pvars, cvars, bvars>>
        \/ RaceSetOpen(p) /\ UNCHANGED <<pvars, cvars, bvars>>
        \/ RaceSetWrite(p) /\ UNCHANGED <<pvars, cvars, bvars>>
        \/ RaceSetFails(p) /\ UNCHANGED <<pvars, cvars, bvars>>
        \/ RaceStartInvalidate(p) /\ UNCHANGED <<pvars, cvars, bvars>>
        \/ RaceInvalidateUnlink(p) /\ UNCHANGED <<pvars, cvars, bvars>>
        \/ RaceInvalidateDenied(p) /\ UNCHANGED <<pvars, cvars, bvars>>

RaceSpec == RaceInit /\ [][RaceNext]_vars

\* ------------------------------------------------- brightness controller

IsSpace(c) == c \in {9, 10, 11, 12, 13, 32}
IsDigit(c) == c \in 48..57

\* str.lower()
Lower(s) == [i \in 1..Len(s) |-> IF s[i] \in 65..90 THEN s[i] + 32 ELSE s[i]]

\* sub occurs in s at position i.
StartsAt(s, sub, i) ==
    /\ i + Len(sub) - 1 <= Len(s)
    /\ SubSeq(s, i, i + Len(sub) - 1) = sub

\* sub in s
Contains(s, sub) == \E i \in 1..(Len(s) + 1) : StartsAt(s, sub, i)

\* str.strip()
Strip(s) ==
    LET keep == {i \in 1..Len(s) : ~IsSpace(s[i])}
    IN  IF keep = {} THEN <<>>
        ELSE SubSeq(s, CHOOSE i \in keep : \A j \in keep : i <= j,
                       CHOOSE i \in keep : \A j \in keep : i >= j)

\* The first position from i on that holds no whitespace (\s*), no digit (\d+).
SkipSpaces(s, i) ==
    CHOOSE j \in i..(Len(s) + 1) :
        /\ j > Len(s) \/ ~IsSpace(s[j])
        /\ \A k \in i..(j - 1) : IsSpace(s[k])
SkipDigits(s, i) ==
    CHOOSE j \in i..(Len(s) + 1) :
        /\ j > Len(s) \/ ~IsDigit(s[j])
        /\ \A k \in i..(j - 1) : IsDigit(s[k])

\* int(digits)
RECURSIVE ToInt(_)
ToInt(digits) ==
    IF digits = <<>> THEN 0
    ELSE 10 * ToInt(SubSeq(digits, 1, Len(digits) - 1)) + (digits[Len(digits)] - 48)

\* str(n)
RECURSIVE IntStr(_)
IntStr(n) ==
    IF n < 0 THEN <<45>> \o IntStr(0 - n)
    ELSE IF n < 10 THEN <<48 + n>>
    ELSE IntStr(n \div 10) \o <<48 + (n % 10)>>

\* "i2c-"
StrI2c ==
    <<105, 50, 99, 45>>

\* "permission denied"
StrPermissionDenied ==
    <<112, 101, 114, 109, 105, 115, 115, 105, 111, 110, 32, 100, 101, 110,
      105, 101, 100>>

\* "errno 13"
StrErrno13 ==
    <<101, 114, 114, 110, 111, 32, 49, 51>>

\* "invalid"
StrInvalid ==
    <<105, 110, 118, 97, 108, 105, 100>>

\* "unsupported"
StrUnsupported ==
    <<117, 110, 115, 117, 112, 112, 111, 114, 116, 101, 100>>

\* "current value"
StrCurrentValue ==
    <<99, 117, 114, 114, 101, 110, 116, 32, 118, 97, 108, 117, 101>>

\* "Brightness value must be 0-100, got "
MsgRange ==
    <<66, 114, 105, 103, 104, 116, 110, 101, 115, 115, 32, 118, 97, 108,
      117, 101, 32, 109, 117, 115, 116, 32, 98, 101, 32, 48, 45, 49, 48,
      48, 44, 32, 103, 111, 116, 32>>

\* "Invalid I2C bus format: "
MsgBusFormat ==
    <<73, 110, 118, 97, 108, 105, 100, 32, 73, 50, 67, 32, 98, 117, 115,
      32, 102, 111, 114, 109, 97, 116, 58, 32>>

\* "Permission denied accessing "
MsgPermission1 ==
    <<80, 101, 114, 109, 105, 115, 115, 105, 111, 110, 32, 100, 101, 110,
      105, 101, 100, 32, 97, 99, 99, 101, 115, 115, 105, 110, 103, 32>>

\* ". Add user to i2c group: sudo usermod -aG i2c "
MsgPermission2 ==
    <<46, 32, 65, 100, 100, 32, 117, 115, 101, 114, 32, 116, 111, 32, 105,
      50, 99, 32, 103, 114, 111, 117, 112, 58, 32, 115, 117, 100, 111, 32,
      117, 115, 101, 114, 109, 111, 100, 32, 45, 97, 71, 32, 105, 50, 99, 32>>

\* "\nThen log out and log back in."
MsgPermission3 ==
    <<10, 84, 104, 101, 110, 32, 108, 111, 103, 32, 111, 117, 116, 32, 97,
      110, 100, 32, 108, 111, 103, 32, 98, 97, 99, 107, 32, 105, 110, 46>>

\* "Monitor on "
MsgUnsupported1 ==
    <<77, 111, 110, 105, 116, 111, 114, 32, 111, 110, 32>>

\* " does not support DDC/CI brightness control (VCP 0x10)"
MsgUnsupported2 ==
    <<32, 100, 111, 101, 115, 32, 110, 111, 116, 32, 115, 117, 112, 112,
      111, 114, 116, 32, 68, 68, 67, 47, 67, 73, 32, 98, 114, 105, 103,
      104, 116, 110, 101, 115, 115, 32, 99, 111, 110, 116, 114, 111, 108,
      32, 40, 86, 67, 80, 32, 48, 120, 49, 48, 41>>

\* "ddcutil getvcp failed: "
MsgGetFailed ==
    <<100, 100, 99, 117, 116, 105, 108, 32, 103, 101, 116, 118, 99, 112,
      32, 102, 97, 105, 108, 101, 100, 58, 32>>

\* "ddcutil setvcp failed: "
MsgSetFailed ==
    <<100, 100, 99, 117, 116, 105, 108, 32, 115, 101, 116, 118, 99, 112,
      32, 102, 97, 105, 108, 101, 100, 58, 32>>

\* "Failed to parse brightness from: "
MsgParse ==
    <<70, 97, 105, 108, 101, 100, 32, 116, 111, 32, 112, 97, 114, 115, 101,
      32, 98, 114, 105, 103, 104, 116, 110, 101, 115, 115, 32, 102, 114,
      111, 109, 58, 32>>

\* "ddcutil getvcp timed out on "
MsgGetTimeout ==
    <<100, 100, 99, 117, 116, 105, 108, 32, 103, 101, 116, 118, 99, 112,
      32, 116, 105, 109, 101, 100, 32, 111, 117, 116, 32, 111, 110, 32>>

\* "ddcutil setvcp timed out on "
MsgSetTimeout ==
    <<100, 100, 99, 117, 116, 105, 108, 32, 115, 101, 116, 118, 99, 112,
      32, 116, 105, 109, 101, 100, 32, 111, 117, 116, 32, 111, 110, 32>>

\* "ddcutil not found. Install with: sudo apt install ddcutil"
MsgNotFound ==
    <<100, 100, 99, 117, 116, 105, 108, 32, 110, 111, 116, 32, 102, 111,
      117, 110, 100, 46, 32, 73, 110, 115, 116, 97, 108, 108, 32, 119, 105,
      116, 104, 58, 32, 115, 117, 100, 111, 32, 97, 112, 116, 32, 105, 110,
      115, 116, 97, 108, 108, 32, 100, 100, 99, 117, 116, 105, 108>>

\* "Failed to get brightness after retries"
MsgGetExhausted ==
    <<70, 97, 105, 108, 101, 100, 32, 116, 111, 32, 103, 101, 116, 32, 98,
      114, 105, 103, 104, 116, 110, 101, 115, 115, 32, 97, 102, 116, 101,
      114, 32, 114, 101, 116, 114, 105, 101, 115>>

\* "Failed to set brightness after retries"
MsgSetExhausted ==
    <<70, 97, 105, 108, 101, 100, 32, 116, 111, 32, 115, 101, 116, 32, 98,
      114, 105, 103, 104, 116, 110, 101, 115, 115, 32, 97, 102, 116, 101,
      114, 32, 114, 101, 116, 114, 105, 101, 115>>

\* "eva"
EnvUser ==
    <<101, 118, 97>>

\* _extract_bus_number: re.search(r'i2c-(\d+)', i2c_bus); ValueError when
\* there is no match.
ExtractBusNumber(bus) ==
    LET hits == {i \in 1..Len(bus) :
                    /\ StartsAt(bus, StrI2c, i)
                    /\ i + 4 <= Len(bus)
                    /\ IsDigit(bus[i + 4])}
        first == CHOOSE i \in hits : \A j \in hits : i <= j
    IN  IF hits = {} THEN [ok |-> FALSE, num |-> <<>>]
        ELSE [ok |-> TRUE,
              num |-> SubSeq(bus, first + 4, SkipDigits(bus, first + 4) - 1)]

\* re.search(r'current value\s*=\s*(\d+)', stdout), and int(match.group(1)).
SearchCurrentValue(stdout) ==
    LET eq(i) == SkipSpaces(stdout, i + Len(StrCurrentValue))
        num(i) == SkipSpaces(stdout, eq(i) + 1)
        hits == {i \in 1..Len(stdout) :
                    /\ StartsAt(stdout, StrCurrentValue, i)
                    /\ eq(i) <= Len(stdout)
                    /\ stdout[eq(i)] = 61
                    /\ num(i) <= Len(stdout)
                    /\ IsDigit(stdout[num(i)])}
        first == CHOOSE i \in hits : \A j \in hits : i <= j
    IN  IF hits = {} THEN [ok |-> FALSE, value |-> 0]
        ELSE [ok |-> TRUE,
              value |-> ToInt(SubSeq(stdout, num(first),
                                     SkipDigits(stdout, num(first)) - 1))]

\* What subprocess.run does: raises TimeoutExpired, raises FileNotFoundError,
\* or returns a result.
TimedOut == [kind |-> "timeout", returncode |-> 0, stdout |-> <<>>, stderr |-> <<>>]
NotFound == [kind |-> "notfound", returncode |-> 0, stdout |-> <<>>, stderr |-> <<>>]
Exited(returncode, stdout, stderr) ==
    [kind |-> "exit", returncode |-> returncode, stdout |-> stdout, stderr |-> stderr]

\* How an iteration of the loop, or the call, ends. what names the raise
\* statement: "range", "bus", "permission", "unsupported", "failed", "parse",
\* "timeout", "notfound", "exhausted".
Continue == [kind |-> "continue", cond |-> "", what |-> "", text |-> <<>>, value |-> 0]
Return(v) == [kind |-> "return", cond |-> "", what |-> "", text |-> <<>>, value |-> v]
Err(cond, what, text) ==
    [kind |-> "raise", cond |-> cond, what |-> what, text |-> text, value |-> 0]

\* The range test of set_brightness without its lower end.
ValueInRangeNoFloor(v) == v <= 100

\* set_brightness: 0 <= value <= 100
ValueInRange(v) == 0 <= v /\ v <= 100

\* The retry test that gives up one attempt early.
CanRetryShort(att, retries) == att < retries - 2

\* The retry test that lets the last attempt retry too.
CanRetryAlways(att, retries) == att < retries

\* attempt < max_retries - 1
CanRetry(att, retries) == att < retries - 1

\* The permission test without 'errno 13'.
PermissionDeniedNoErrno(stderr) == Contains(stderr, StrPermissionDenied)

\* 'permission denied' in stderr or 'errno 13' in stderr
PermissionDenied(stderr) ==
    Contains(stderr, StrPermissionDenied) \/ Contains(stderr, StrErrno13)

\* 'invalid' in stderr or 'unsupported' in stderr
Unsupported(stderr) ==
    Contains(stderr, StrInvalid) \/ Contains(stderr, StrUnsupported)

PermissionMessage(bus) ==
    MsgPermission1 \o bus \o MsgPermission2 \o EnvUser \o MsgPermission3

UnsupportedMessage(bus) == MsgUnsupported1 \o bus \o MsgUnsupported2

\* The timeout message without the bus.
TimeoutMessageNoBus(o, bus) ==
    IF o = "get" THEN MsgGetTimeout ELSE MsgSetTimeout

\* f"ddcutil getvcp timed out on {i2c_bus}", and setvcp.
TimeoutMessage(o, bus) ==
    (IF o = "get" THEN MsgGetTimeout ELSE MsgSetTimeout) \o bus

\* f"ddcutil getvcp failed: {result.stderr.strip()}", and setvcp.
FailedMessage(o, stderr) ==
    (IF o = "get" THEN MsgGetFailed ELSE MsgSetFailed) \o Strip(stderr)

\* One iteration of get_brightness's loop, subprocess.run having done r.
GetBrightnessAttempt(r, att, retries, bus) ==
    IF r.kind = "timeout"
    THEN IF CanRetry(att, retries) THEN Continue
         ELSE Err("RuntimeError", "timeout", TimeoutMessage("get", bus))
    ELSE IF r.kind = "notfound"
    THEN Err("RuntimeError", "notfound", MsgNotFound)
    ELSE IF r.returncode # 0
    THEN IF PermissionDenied(Lower(r.stderr))
         THEN Err("PermissionError", "permission", PermissionMessage(bus))
         ELSE IF Unsupported(Lower(r.stderr))
         THEN Err("RuntimeError", "unsupported", UnsupportedMessage(bus))
         ELSE IF CanRetry(att, retries) THEN Continue
         ELSE Err("RuntimeError", "failed", FailedMessage("get", r.stderr))
    ELSE LET match == SearchCurrentValue(r.stdout)
         IN  IF match.ok THEN Return(match.value)
             ELSE Err("RuntimeError", "parse", MsgParse \o Strip(r.stdout))

\* One iteration of set_brightness's loop, subprocess.run having done r.
SetBrightnessAttempt(r, att, retries, bus) ==
    IF r.kind = "timeout"
    THEN IF CanRetry(att, retries) THEN Continue
         ELSE Err("RuntimeError", "timeout", TimeoutMessage("set", bus))
    ELSE IF r.kind = "notfound"
    THEN Err("RuntimeError", "notfound", MsgNotFound)
    ELSE IF r.returncode # 0
    THEN IF PermissionDenied(Lower(r.stderr))
         THEN Err("PermissionError", "permission", PermissionMessage(bus))
         ELSE IF CanRetry(att, retries) THEN Continue
         ELSE Err("RuntimeError", "failed", FailedMessage("set", r.stderr))
    ELSE Return(0)

\* ------------------------------------------------------- controller inputs

\* "/dev/i2c-4"
BusDev4 ==
    <<47, 100, 101, 118, 47, 105, 50, 99, 45, 52>>

\* "/dev/i2c-12"
BusDev12 ==
    <<47, 100, 101, 118, 47, 105, 50, 99, 45, 49, 50>>

\* "/dev/i2c-4x"
BusDev4x ==
    <<47, 100, 101, 118, 47, 105, 50, 99, 45, 52, 120>>

\* "/dev/i2c-"
BusNoDigits ==
    <<47, 100, 101, 118, 47, 105, 50, 99, 45>>

\* "bus4"
BusNoDash ==
    <<98, 117, 115, 52>>

\* " DDC communication failed\n"
ErrDdc ==
    <<32, 68, 68, 67, 32, 99, 111, 109, 109, 117, 110, 105, 99, 97, 116,
      105, 111, 110, 32, 102, 97, 105, 108, 101, 100, 10>>

\* "Permission denied\n"
ErrPermission ==
    <<80, 101, 114, 109, 105, 115, 115, 105, 111, 110, 32, 100, 101, 110,
      105, 101, 100, 10>>

\* "open failed: Errno 13"
ErrErrno ==
    <<111, 112, 101, 110, 32, 102, 97, 105, 108, 101, 100, 58, 32, 69, 114,
      114, 110, 111, 32, 49, 51>>

\* "Invalid display\n"
ErrInvalid ==
    <<73, 110, 118, 97, 108, 105, 100, 32, 100, 105, 115, 112, 108, 97,
      121, 10>>

\* "Unsupported feature code"
ErrUnsupported ==
    <<85, 110, 115, 117, 112, 112, 111, 114, 116, 101, 100, 32, 102, 101,
      97, 116, 117, 114, 101, 32, 99, 111, 100, 101>>

\* "invalid: permission denied"
ErrBoth ==
    <<105, 110, 118, 97, 108, 105, 100, 58, 32, 112, 101, 114, 109, 105,
      115, 115, 105, 111, 110, 32, 100, 101, 110, 105, 101, 100>>

\* "VCP code 0x10 (Brightness ): current value = 42, max value = 100"
OutScenario ==
    <<86, 67, 80, 32, 99, 111, 100, 101, 32, 48, 120, 49, 48, 32, 40, 66,
      114, 105, 103, 104, 116, 110, 101, 115, 115, 32, 41, 58, 32, 99, 117,
      114, 114, 101, 110, 116, 32, 118, 97, 108, 117, 101, 32, 61, 32, 52,
      50, 44, 32, 109, 97, 120, 32, 118, 97, 108, 117, 101, 32, 61, 32, 49,
      48, 48>>

\* "current value =   100, max value =   100"
OutSpaced ==
    <<99, 117, 114, 114, 101, 110, 116, 32, 118, 97, 108, 117, 101, 32, 61,
      32, 32, 32, 49, 48, 48, 44, 32, 109, 97, 120, 32, 118, 97, 108, 117,
      101, 32, 61, 32, 32, 32, 49, 48, 48>>

\* "current value=0"
OutTight ==
    <<99, 117, 114, 114, 101, 110, 116, 32, 118, 97, 108, 117, 101, 61, 48>>

\* "current value = 255, max value = 255"
OutLarge ==
    <<99, 117, 114, 114, 101, 110, 116, 32, 118, 97, 108, 117, 101, 32, 61,
      32, 50, 53, 53, 44, 32, 109, 97, 120, 32, 118, 97, 108, 117, 101, 32,
      61, 32, 50, 53, 53>>

\* "current value = n/a"
OutNoDigits ==
    <<99, 117, 114, 114, 101, 110, 116, 32, 118, 97, 108, 117, 101, 32, 61,
      32, 110, 47, 97>>

\* "Current Value = 50"
OutCapital ==
    <<67, 117, 114, 114, 101, 110, 116, 32, 86, 97, 108, 117, 101, 32, 61,
      32, 53, 48>>

\* "No monitor detected\n"
OutNone ==
    <<78, 111, 32, 109, 111, 110, 105, 116, 111, 114, 32, 100, 101, 116,
      101, 99, 116, 101, 100, 10>>

BusInputs == {BusDev4, BusDev12, BusDev4x, BusNoDigits, BusNoDash}

ValueInputs == {-1, 0, 42, 100, 101}

Stderrs ==
    {<<>>, ErrDdc, ErrPermission, ErrErrno, ErrInvalid, ErrUnsupported, ErrBoth}

Stdouts ==
    {<<>>, OutScenario, OutSpaced, OutTight, OutLarge, OutNoDigits, OutCapital,
     OutNone}

GetOutcomes ==
    {TimedOut, NotFound}
        \cup {Exited(0, out, <<>>) : out \in Stdouts}
        \cup {Exited(1, <<>>, err) : err \in Stderrs}

SetOutcomes ==
    {TimedOut, NotFound, Exited(0, <<>>, <<>>)}
        \cup {Exited(1, <<>>, err) : err \in Stderrs}

\* ------------------------------------------------- specification: controller

ControllerInit == ControllerIdle /\ ParserIdle /\ CacheIdle /\ RaceIdle

\* get_brightness(bus, retries) up to the head of its loop.
CallGet(bus, retries) ==
    /\ bpc = "idle"
    /\ op' = "get"
    /\ i2c_bus' = bus
    /\ value' = 0
    /\ max_retries' = retries
    /\ attempt' = 0
    /\ trace' = <<>>
    /\ LET e == ExtractBusNumber(bus)
       IN  IF ~e.ok
           THEN /\ bus_num' = <<>>
                /\ bpc' = "raised"
                /\ result' = Err("ValueError", "bus", MsgBusFormat \o bus)
           ELSE /\ bus_num' = e.num
                /\ bpc' = "loop"
                /\ result' = NoOutcome

\* set_brightness(bus, v, retries) up to the head of its loop.
CallSet(bus, v, retries) ==
    /\ bpc = "idle"
    /\ op' = "set"
    /\ i2c_bus' = bus
    /\ value' = v
    /\ max_retries' = retries
    /\ attempt' = 0
    /\ trace' = <<>>
    /\ LET e == ExtractBusNumber(bus)
       IN  IF ~ValueInRange(v)
           THEN /\ bus_num' = <<>>
                /\ bpc' = "raised"
                /\ result' = Err("ValueError", "range", MsgRange \o IntStr(v))
           ELSE IF ~e.ok
           THEN /\ bus_num' = <<>>
                /\ bpc' = "raised"
                /\ result' = Err("ValueError", "bus", MsgBusFormat \o bus)
           ELSE /\ bus_num' = e.num
                /\ bpc' = "loop"
                /\ result' = NoOutcome

\* How the iteration that ended as e leaves the call.
EndIteration(e) ==
    IF e.kind = "continue"
    THEN /\ attempt' = attempt + 1
         /\ bpc' = "loop"
         /\ result' = NoOutcome
    ELSE /\ attempt' = attempt
         /\ bpc' = IF e.kind = "return" THEN "returned" ELSE "raised"
         /\ result' = e

\* One iteration of the loop: subprocess.run is invoked and does r.
Attempt ==
    /\ bpc = "loop"
    /\ attempt < max_retries
    /\ \/ /\ op = "get"
          /\ \E r \in GetOutcomes :
                /\ trace' = Append(trace, r)
                /\ EndIteration(GetBrightnessAttempt(r, attempt, max_retries, i2c_bus))
       \/ /\ op = "set"
          /\ \E r \in SetOutcomes :
                /\ trace' = Append(trace, r)
                /\ EndIteration(SetBrightnessAttempt(r, attempt, max_retries, i2c_bus))
    /\ UNCHANGED <<op, i2c_bus, value, max_retries, bus_num>>

\* The function without the raise after its loop: falling off the end returns.
LoopExhaustedReturns ==
    /\ bpc = "loop"
    /\ attempt >= max_retries
    /\ bpc' = "returned"
    /\ result' = Return(0)
    /\ UNCHANGED <<op, i2c_bus, value, max_retries, bus_num, attempt, trace>>

\* The loop ends without a return or a raise: the statement after it.
LoopExhausted ==
    /\ bpc = "loop"
    /\ attempt >= max_retries
    /\ bpc' = "raised"
    /\ result' = Err("RuntimeError", "exhausted",
                     IF op = "get" THEN MsgGetExhausted ELSE MsgSetExhausted)
    /\ UNCHANGED <<op, i2c_bus, value, max_retries, bus_num, attempt, trace>>

ControllerNext ==
    \/ (\E bus \in BusInputs, retries \in (-1)..MaxRetries : CallGet(bus, retries))
          /\ UNCHANGED <<pvars, cvars, xvars>>
    \/ (\E bus \in BusInputs, v \in ValueInputs, retries \in (-1)..MaxRetries :
            CallSet(bus, v, retries))
          /\ UNCHANGED <<pvars, cvars, xvars>>
    \/ Attempt /\ UNCHANGED <<pvars, cvars, xvars>>
    \/ LoopExhausted /\ UNCHANGED <<pvars, cvars, xvars>>

ControllerSpec == ControllerInit /\ [][ControllerNext]_vars

\* A call is synchronous, straight-line code, and subprocess.run returns or
\* raises within its timeout of 5 seconds: a call at the head of its loop
\* goes on, to the next invocation or to the statement after the loop.
ControllerFairSpec ==
    /\ ControllerSpec
    /\ WF_vars(Attempt /\ UNCHANGED <<pvars, cvars, xvars>>)
    /\ WF_vars(LoopExhausted /\ UNCHANGED <<pvars, cvars, xvars>>)

\* ------------------------------------------------------ specification: parse

NoResult == [raised |-> FALSE, monitors |-> <<>>]

ParseInit ==
    /\ output \in Inputs
    /\ monitors = NoResult
    /\ ppc = "ready"
    /\ CacheIdle
    /\ ControllerIdle
    /\ RaceIdle

\* A call of parse_ddcutil_detect(output).
Parse ==
    /\ ppc = "ready"
    /\ monitors' = ParseDdcutilDetect(output)
    /\ ppc' = "done"
    /\ UNCHANGED output
    /\ UNCHANGED <<cvars, bvars, xvars>>

ParseNext == Parse

ParseSpec == ParseInit /\ [][ParseNext]_vars

\* ------------------------------------------------------------ claims: cache

\* C1: MonitorCache.get never raises: whatever state the cache file is in
\* (missing, unreadable, empty or truncated, not JSON, JSON of the wrong
\* structure), get returns a monitor list or None.
C1_GetNeverRaises ==
    cret.op = "get" => cret.kind \in {"list", "none"}

\* C2: a get() that follows a completed set(monitors), the file untouched in
\* between and at most cache_duration elapsed, returns a list equal to the
\* one stored: same length, same order, the same five fields in every entry.
C2_RoundTrip ==
    (cret.op = "get" /\ untouched /\ now - storedAt <= cache_duration) =>
        /\ cret.kind = "list"
        /\ Len(cret.monitors) = Len(stored)
        /\ \A i \in 1..Len(stored) :
               /\ cret.monitors[i].manufacturer = stored[i].manufacturer
               /\ cret.monitors[i].model = stored[i].model
               /\ cret.monitors[i].serial = stored[i].serial
               /\ cret.monitors[i].i2c_bus = stored[i].i2c_bus
               /\ cret.monitors[i].stable_id = stored[i].stable_id

\* A get() that returned two different monitors, one with a suffixed id, some
\* time after the set() that stored them.
C2_Witness ==
    /\ cret.op = "get"
    /\ untouched
    /\ now > storedAt
    /\ cret.kind = "list"
    /\ stored = <<MonA4, MonA3>>

\* C3: a get() returns a list only if now minus the timestamp of the
\* persisted record is at most cache_duration, and returns None whenever it
\* is more; freshness is evaluated at every get, so a record served at
\* exactly cache_duration is refused once the clock has moved on.
C3_Freshness ==
    (cret.op = "get" /\ untouched) =>
        /\ cret.kind = "list" => now - storedAt <= cache_duration
        /\ now - storedAt > cache_duration => cret.kind = "none"
        /\ (servedAtLimit /\ now > storedAt + cache_duration) => cret.kind # "list"

\* A get() that refuses a record an earlier get() served at elapsed time
\* exactly cache_duration.
C3_Witness ==
    /\ cret.op = "get"
    /\ untouched
    /\ servedAtLimit
    /\ cache_duration > 0
    /\ cret.kind = "none"
    /\ now - storedAt = cache_duration + 1

\* ----------------------------------------------- claims: concurrent cache

\* Process p has made call c and it has ended.
Finished(p, c) == proc[p].pc = "done" /\ proc[p].call = c

\* C15: a get() that interleaves at any step with set() and invalidate()
\* calls of other processes never raises, and returns None or a list equal to
\* the whole list passed to one single set() call: never a list that combines
\* entries or fields of two set() calls, never a prefix of a list.
C15_ConcurrentReadsSafe ==
    \A p \in Procs :
        Finished(p, "get") =>
            \/ proc[p].ret.kind = "none"
            \/ proc[p].ret.kind = "list" /\ proc[p].ret.monitors \in passed

\* C16: when set() calls of different processes overlap in any interleaving
\* of their open-and-truncate and write steps and all of them have returned
\* without a write failure, no invalidate() in between, the file holds exactly
\* the text one of them wrote, and a get() made then, within cache_duration,
\* returns the list of one of them: not None and not a mixture.
C16_WritesConverge ==
    (~SetInProgress /\ overlap # {} /\ clean) =>
        /\ link # -1
        /\ \E ms \in overlap : disk[link] = Dumps(CacheData(now, ms))
        /\ \A p \in Procs :
               (Finished(p, "get") /\ proc[p].after = "sets") =>
                   /\ proc[p].ret.kind = "list"
                   /\ proc[p].ret.monitors \in overlap

\* Process p ends a call of invalidate() in this step.
InvalidateReturns(p) ==
    /\ proc[p].pc # "done"
    /\ proc'[p].pc = "done"
    /\ proc'[p].call = "invalidate"

\* The part of C17 that every state satisfies.
InvalidateSafe ==
    \A p \in Procs :
        /\ Finished(p, "invalidate") => proc[p].ret.kind = "none"
        /\ (Finished(p, "get") /\ proc[p].after = "invalidate") =>
               proc[p].ret.kind = "none"

\* C17: invalidate() never raises, also when the file is absent or is removed
\* by another process between its existence check and its removal; a get()
\* made after an invalidate() that removed the file or found none returns
\* None as long as no set() has completed since; an invalidate() made where
\* an invalidate() has left no file leaves the state as it is.
C17_Invalidation ==
    /\ []InvalidateSafe
    /\ [][\A p \in Procs :
             (link = -1 /\ InvalidateReturns(p)) => (link' = -1 /\ disk' = disk)]_vars

\* Two invalidate() calls passed the existence check of a file a set() had
\* written; one removed it, and the other's unlink() found it gone.
C17_Witness ==
    \E p, q, r \in Procs :
        /\ Finished(p, "invalidate")
        /\ proc[p].ret.exc = "FileNotFoundError"
        /\ Finished(q, "invalidate")
        /\ proc[q].ret.exc = ""
        /\ Finished(r, "set")
        /\ proc[r].list # <<>>
        /\ link = -1

\* ------------------------------------------------------ claims: controller

Ended == bpc \in {"returned", "raised"}

AllTimedOut == \A i \in 1..Len(trace) : trace[i].kind = "timeout"

\* C4: set_brightness with a value outside [0,100] fails with ValueError for
\* the range, whatever the bus identifier and max_retries, without invoking
\* the external tool; with a value in [0,100] the range check does not fail.
C4_RangeValidation ==
    (op = "set" /\ bpc # "idle") =>
        /\ (value < 0 \/ value > 100) =>
              /\ bpc = "raised"
              /\ result.cond = "ValueError"
              /\ result.what = "range"
              /\ trace = <<>>
        /\ (0 <= value /\ value <= 100) => result.what # "range"

\* A value below the range with a bus identifier that is invalid too: the
\* range is what the call fails for.
C4_Witness ==
    /\ op = "set"
    /\ value = -1
    /\ i2c_bus = BusNoDash
    /\ max_retries = 3
    /\ bpc = "raised"
    /\ result.what = "range"

\* C5: a call of get_brightness or set_brightness whose invocations of the
\* external tool all time out performs exactly max_retries invocations and
\* then fails with the timeout condition.
C5_TimeoutRetryBound ==
    (Ended /\ trace # <<>> /\ AllTimedOut) =>
        /\ Len(trace) = max_retries
        /\ bpc = "raised"
        /\ result.cond = "RuntimeError"
        /\ result.what = "timeout"

\* Three timeouts in a call with max_retries = 3.
C5_Witness ==
    /\ Ended
    /\ max_retries = 3
    /\ Len(trace) = 3
    /\ AllTimedOut

\* An outcome with a permission-related message on a non-zero exit, one with
\* an unsupported/invalid-feature message, and a zero exit whose output
\* holds no current value.
PermissionRelated(r) ==
    /\ r.kind = "exit"
    /\ r.returncode # 0
    /\ \/ Contains(Lower(r.stderr), StrPermissionDenied)
       \/ Contains(Lower(r.stderr), StrErrno13)

FeatureUnsupported(r) ==
    /\ r.kind = "exit"
    /\ r.returncode # 0
    /\ \/ Contains(Lower(r.stderr), StrInvalid)
       \/ Contains(Lower(r.stderr), StrUnsupported)

NoCurrentValue(r) ==
    /\ r.kind = "exit"
    /\ r.returncode = 0
    /\ r.stdout \in {<<>>, OutNoDigits, OutCapital, OutNone}

\* The condition a never-retried outcome r ends call o with, "" for an
\* outcome that is not one.
NeverRetried(o, r) ==
    IF r.kind = "notfound" THEN "notfound"
    ELSE IF PermissionRelated(r) THEN "permission"
    ELSE IF o = "get" /\ FeatureUnsupported(r) THEN "unsupported"
    ELSE IF o = "get" /\ NoCurrentValue(r) THEN "parse"
    ELSE ""

\* C6: an attempt that yields a never-retried condition (permission, tool
\* unavailable, and for get unsupported feature and unparsable output) is the
\* last invocation of the call, which fails with that condition, whatever
\* the attempt number and however many attempts remain.
C6_NeverRetried ==
    \A i \in 1..Len(trace) :
        NeverRetried(op, trace[i]) # "" =>
            /\ i = Len(trace)
            /\ bpc = "raised"
            /\ result.what = NeverRetried(op, trace[i])
            /\ result.cond =
                  IF PermissionRelated(trace[i]) THEN "PermissionError"
                  ELSE "RuntimeError"

\* A permission failure (errno 13) on the second of three attempts.
C6_Witness ==
    /\ bpc = "raised"
    /\ max_retries = 3
    /\ Len(trace) = 2
    /\ trace[2] = Exited(1, <<>>, ErrErrno)
    /\ result.what = "permission"

\* C7: whenever get_brightness returns a value, it is an integer in [0,100],
\* for every output the external tool can produce on a zero exit.
C7_BrightnessInRange ==
    (op = "get" /\ bpc = "returned") => (0 <= result.value /\ result.value <= 100)

\* The diagnostic text captured from the failing invocation.
Diagnostic == Strip(trace[Len(trace)].stderr)

\* C8: every timeout condition and every generic-command-failure condition
\* names the bus identifier of the call, and every generic-command-failure
\* condition carries the diagnostic text of the failing invocation.
C8_FailuresNameBus ==
    (bpc = "raised" /\ result.what \in {"timeout", "failed"}) =>
        /\ Contains(result.text, i2c_bus)
        /\ result.what = "failed" => Contains(result.text, Diagnostic)

\* C8 as amended: every timeout condition names the bus identifier of the
\* call, and every generic-command-failure condition raised for a non-zero
\* exit carries the diagnostic text (stderr, stripped) of that invocation.
C8_TimeoutNamesBusFailureCarriesText ==
    /\ (bpc = "raised" /\ result.what = "timeout") =>
          Contains(result.text, i2c_bus)
    /\ (bpc = "raised" /\ result.what = "failed") =>
          Contains(result.text, Diagnostic)

\* A generic command failure with a diagnostic text.
C8_Witness ==
    /\ bpc = "raised"
    /\ result.what = "failed"
    /\ Len(trace) = 2
    /\ trace[2].stderr = ErrDdc

\* A non-zero exit that is retried: neither permission-related nor, for
\* get_brightness, unsupported/invalid; and a retryable failure: a timeout
\* or such an exit.
PlainFailure(o, r) ==
    /\ r.kind = "exit"
    /\ r.returncode # 0
    /\ ~PermissionRelated(r)
    /\ o = "get" => ~FeatureUnsupported(r)

Retryable(o, r) == r.kind = "timeout" \/ PlainFailure(o, r)

AllPlainFailures == \A i \in 1..Len(trace) : PlainFailure(op, trace[i])

\* The part of C13 that every state of a call with max_retries >= 1 satisfies.
RetryBound ==
    (op # "none" /\ max_retries >= 1) =>
        /\ Len(trace) <= max_retries
        /\ (Ended /\ trace # <<>> /\ AllPlainFailures) =>
              /\ Len(trace) = max_retries
              /\ bpc = "raised"
              /\ result.cond = "RuntimeError"
              /\ result.what = "failed"
        /\ \A i \in 1..Len(trace) :
               (Retryable(op, trace[i]) /\ i < max_retries) =>
                   (i < Len(trace) \/ bpc = "loop")

\* C13: for max_retries >= 1 a call makes at most max_retries invocations
\* and always terminates; if every attempt is a retried non-zero exit it makes
\* exactly max_retries invocations and then fails with the generic
\* command-failure condition; a retryable failure on an attempt before the
\* last is always followed by another invocation.
C13_RetriedUpToLimit ==
    /\ []RetryBound
    /\ (bpc = "loop" /\ max_retries >= 1) ~> Ended
    /\ \A n \in 0..MaxRetries :
           (bpc = "loop" /\ Len(trace) = n /\ n < max_retries) ~> (Len(trace) = n + 1)

\* Three non-zero exits with a plain diagnostic in a call of get_brightness
\* with max_retries = 3.
C13_Witness ==
    /\ op = "get"
    /\ bpc = "raised"
    /\ max_retries = 3
    /\ Len(trace) = 3
    /\ AllPlainFailures
    /\ result.what = "failed"

\* The bus number a bus identifier ends in: the digits after its last "i2c-",
\* when they are at least one and run to the end of the identifier; <<>> for
\* an identifier that ends in none.
TrailingBusNumber(bus) ==
    LET ends == {i \in 1..Len(bus) :
                    /\ StartsAt(bus, StrI2c, i)
                    /\ i + 4 <= Len(bus)
                    /\ \A k \in (i + 4)..Len(bus) : IsDigit(bus[k])}
    IN  IF ends = {} THEN <<>>
        ELSE SubSeq(bus, (CHOOSE i \in ends : \A j \in ends : i >= j) + 4, Len(bus))

\* C14: for get_brightness, and for set_brightness with a value in [0,100], a
\* bus identifier that does not end in a bus number fails with the
\* invalid-argument condition, without an invocation of the external tool;
\* for an identifier ending in bus number N every invocation is made with
\* N as its bus argument (the call's bus_num).
C14_BusValidation ==
    (op # "none" /\ (op = "set" => ValueInRange(value))) =>
        IF TrailingBusNumber(i2c_bus) = <<>>
        THEN /\ bpc = "raised"
             /\ result.cond = "ValueError"
             /\ result.what = "bus"
             /\ trace = <<>>
        ELSE /\ result.what # "bus"
             /\ bus_num = TrailingBusNumber(i2c_bus)

\* An invocation that exited with code 0.
ExitedZero(r) == r.kind = "exit" /\ r.returncode = 0

Invocations == 1..Len(trace)

\* C20: no success without a successful external call. set_brightness returns
\* only if an invocation of that call exited with code 0; get_brightness
\* returns a value only if an invocation of that call exited with code 0 and
\* its output held a current value, the value returned; with max_retries <= 0
\* a call that reaches its loop makes no invocation and raises RuntimeError.
C20_NoSuccessWithoutExitZero ==
    /\ (bpc = "returned" /\ op = "set") =>
           \E i \in Invocations : ExitedZero(trace[i])
    /\ (bpc = "returned" /\ op = "get") =>
           \E i \in Invocations :
               /\ ExitedZero(trace[i])
               /\ SearchCurrentValue(trace[i].stdout).ok
               /\ SearchCurrentValue(trace[i].stdout).value = result.value
    /\ (bpc # "idle" /\ max_retries <= 0) =>
           /\ trace = <<>>
           /\ bpc # "returned"
           /\ (bpc = "raised" /\ result.what \notin {"range", "bus"}) =>
                  (result.cond = "RuntimeError" /\ result.what = "exhausted")

\* get_brightness has returned 42 from its second invocation, the first
\* having failed.
C20_Witness ==
    /\ bpc = "returned"
    /\ op = "get"
    /\ Len(trace) = 2
    /\ ~ExitedZero(trace[1])
    /\ trace[2] = Exited(0, OutScenario, <<>>)
    /\ result.value = 42

\* ------------------------------------------------------------ claims: parse

ReturnedMonitors == monitors.monitors

\* C9: the Monitors returned by one call of parse_ddcutil_detect have pairwise
\* distinct stable_id values, for every input text, also when three or more
\* blocks share manufacturer, model and serial.
C9_StableIdsDistinct ==
    ppc = "done" =>
        \A i, j \in 1..Len(ReturnedMonitors) :
            i # j => ReturnedMonitors[i].stable_id # ReturnedMonitors[j].stable_id

\* The blocks of the input, read off the text: a block starts at a bus line
\* and ends before the next bus line or at the end of the input.
BusLines == {i \in 1..Len(output) : output[i].kind = "bus"}

BlockLines(i) ==
    {j \in (i + 1)..Len(output) :
        \A b \in BusLines : b > i => j < b}

BlockHas(i, kind) == \E j \in BlockLines(i) : output[j].kind = kind

BlockComplete(i) ==
    BlockHas(i, "mfg") /\ BlockHas(i, "model") /\ BlockHas(i, "serial")

CompleteBlocks == {i \in BusLines : BlockComplete(i)}

\* Monitor m is made of block i: its bus path is the block's, and each field
\* is the text of a line of that kind inside the block.
MadeOf(m, i) ==
    /\ m.i2c_bus = DevPrefix \o output[i].val
    /\ \E j \in BlockLines(i) :
           output[j].kind = "mfg" /\ output[j].val = m.manufacturer
    /\ \E j \in BlockLines(i) :
           output[j].kind = "model" /\ output[j].val = m.model
    /\ \E j \in BlockLines(i) :
           output[j].kind = "serial" /\ output[j].val = m.serial

\* C10: parse_ddcutil_detect never raises, and the returned Monitors are, one
\* for one, the complete blocks of the input: every Monitor is made of the
\* lines of one block holding bus, manufacturer, model and serial, an
\* incomplete block yields none, and lines before the first bus line yield none.
C10_IncompleteBlocksDropped ==
    ppc = "done" =>
        /\ ~monitors.raised
        /\ Len(ReturnedMonitors) = Cardinality(CompleteBlocks)
        /\ \E f \in [1..Len(ReturnedMonitors) -> CompleteBlocks] :
               /\ \A k, l \in 1..Len(ReturnedMonitors) : k # l => f[k] # f[l]
               /\ \A k \in 1..Len(ReturnedMonitors) : MadeOf(ReturnedMonitors[k], f[k])

\* A call that returned a Monitor and dropped an incomplete block.
C10_Witness ==
    /\ ppc = "done"
    /\ Len(ReturnedMonitors) >= 1
    /\ \E i \in BusLines : ~BlockComplete(i) /\ BlockLines(i) # {}

\* The id __post_init__ derives from a returned Monitor's fields, the bus
\* number of its own bus path, and the id with the bus suffix.
BaseId(m) == m.manufacturer \o ChrDash \o m.model \o ChrDash \o m.serial

BusNumberOf(m) == SubSeq(m.i2c_bus, Len(DevPrefix) + 1, Len(m.i2c_bus))

Suffixed(m) == BaseId(m) \o ChrDash \o StrBus \o BusNumberOf(m)

Positions == 1..Len(ReturnedMonitors)

\* C11: a Monitor whose (manufacturer, model, serial) yields an id no other
\* monitor of the same parse yields gets exactly manufacturer-model-serial;
\* when two monitors, and no third, share manufacturer, model and serial but
\* differ in bus path, the first in sort order keeps the base id and the
\* second gets it followed by -bus<N>, N the bus number of its own bus path.
C11_BaseOrBusSuffix ==
    ppc = "done" =>
        /\ \A i \in Positions :
               (\A j \in Positions \ {i} :
                    BaseId(ReturnedMonitors[j]) # BaseId(ReturnedMonitors[i]))
                   => ReturnedMonitors[i].stable_id = BaseId(ReturnedMonitors[i])
        /\ \A i, j \in Positions :
               (/\ i < j
                /\ BaseId(ReturnedMonitors[i]) = BaseId(ReturnedMonitors[j])
                /\ ReturnedMonitors[i].i2c_bus # ReturnedMonitors[j].i2c_bus
                /\ \A k \in Positions \ {i, j} :
                       BaseId(ReturnedMonitors[k]) # BaseId(ReturnedMonitors[i]))
                   => /\ ReturnedMonitors[i].stable_id = BaseId(ReturnedMonitors[i])
                      /\ ReturnedMonitors[j].stable_id = Suffixed(ReturnedMonitors[j])

\* No monitor other than those at the positions in own is given id.
GivenToNoOther(id, own) ==
    \A k \in Positions \ own : ReturnedMonitors[k].stable_id # id

\* C11 as amended: a Monitor whose derived id no other monitor of the parse
\* yields or is given gets exactly manufacturer-model-serial; when exactly two
\* monitors share manufacturer, model and serial, differ in bus path, and no
\* other monitor of the parse is given their base id, the first in sort order
\* keeps the base id and the second gets it followed by -bus<N>, N the bus
\* number of its own bus path.
C11_BaseUnlessGivenBefore ==
    ppc = "done" =>
        /\ \A i \in Positions :
               (/\ \A j \in Positions \ {i} :
                       BaseId(ReturnedMonitors[j]) # BaseId(ReturnedMonitors[i])
                /\ GivenToNoOther(BaseId(ReturnedMonitors[i]), {i}))
                   => ReturnedMonitors[i].stable_id = BaseId(ReturnedMonitors[i])
        /\ \A i, j \in Positions :
               (/\ i < j
                /\ BaseId(ReturnedMonitors[i]) = BaseId(ReturnedMonitors[j])
                /\ ReturnedMonitors[i].i2c_bus # ReturnedMonitors[j].i2c_bus
                /\ \A k \in Positions \ {i, j} :
                       BaseId(ReturnedMonitors[k]) # BaseId(ReturnedMonitors[i])
                /\ GivenToNoOther(BaseId(ReturnedMonitors[i]), {i, j}))
                   => /\ ReturnedMonitors[i].stable_id = BaseId(ReturnedMonitors[i])
                      /\ ReturnedMonitors[j].stable_id = Suffixed(ReturnedMonitors[j])

\* Two monitors A-M-S on buses 4 and 3, in that order, and a third with an id
\* of its own: the one on bus 3 sorts second and is given A-M-S-bus3.
C11_Witness ==
    /\ ppc = "done"
    /\ Len(ReturnedMonitors) = 3
    /\ ReturnedMonitors[1].i2c_bus = DevPrefix \o Dig4
    /\ ReturnedMonitors[1].stable_id = StrA \o ChrDash \o StrM \o ChrDash \o StrS
    /\ ReturnedMonitors[2].stable_id = ReturnedMonitors[1].stable_id
                                          \o ChrDash \o StrBus \o Dig3
    /\ ReturnedMonitors[3].serial = StrS1
    /\ ReturnedMonitors[3].stable_id = BaseId(ReturnedMonitors[3])

\* C12: the list parse_ddcutil_detect returns is sorted by stable id: the
\* stable_id values, as returned after the duplicate pass, are in
\* non-decreasing lexicographic order, for every input.
C12_SortedByStableId ==
    ppc = "done" =>
        \A i, j \in Positions :
            i < j => ~StrLess(ReturnedMonitors[j].stable_id,
                              ReturnedMonitors[i].stable_id)

\* The complete blocks of the input have pairwise distinct bus paths.
DistinctBusPaths ==
    \A i, j \in CompleteBlocks : i # j => output[i].val # output[j].val

\* C18: when the complete blocks of the input have pairwise distinct bus
\* paths, the returned stable_id values are pairwise distinct, however many
\* blocks share a base id, also when one monitor's base id is another's base
\* id with a -bus<N> suffix.
C18_DistinctWhenBusesDistinct ==
    (ppc = "done" /\ DistinctBusPaths) =>
        \A i, j \in Positions :
            i # j => ReturnedMonitors[i].stable_id # ReturnedMonitors[j].stable_id

\* Three monitors on three buses: two share the base id A-M-S, and the base id
\* of the third is the id the second of them is given.
C18_Witness ==
    /\ ppc = "done"
    /\ DistinctBusPaths
    /\ Len(ReturnedMonitors) = 3
    /\ BaseId(ReturnedMonitors[1]) = BaseId(ReturnedMonitors[2])
    /\ BaseId(ReturnedMonitors[3]) = ReturnedMonitors[2].stable_id
    /\ ReturnedMonitors[3].stable_id = Suffixed(ReturnedMonitors[3])

\* The blocks of the input in the order they appear: the k-th bus line, and
\* the lines from a bus line up to the next one.
NumBlocks == Cardinality(BusLines)

NthBus(k) ==
    CHOOSE i \in BusLines : Cardinality({j \in BusLines : j < i}) = k - 1

BlockText(i) == SubSeq(output, i, i + Cardinality(BlockLines(i)))

LinesBeforeBlocks ==
    SubSeq(output, 1, Len(output) - Cardinality(BusLines)
                          - Cardinality(UNION {BlockLines(i) : i \in BusLines}))

\* The rearrangements of the blocks that move complete blocks only.
BlockPermutations ==
    {f \in Permutations(1..NumBlocks) :
        \A k \in 1..NumBlocks : NthBus(k) \notin CompleteBlocks => f[k] = k}

Reordered(f) ==
    LinesBeforeBlocks \o Flatten([k \in 1..NumBlocks |-> BlockText(NthBus(f[k]))])

BusIdPairs(ms) == {<<ms[i].i2c_bus, ms[i].stable_id>> : i \in 1..Len(ms)}

\* C19: the stable id a bus is given does not depend on the order of the
\* device blocks: parse_ddcutil_detect returns the same set of
\* (i2c_bus, stable_id) pairs for the input and for every rearrangement of its
\* complete blocks.
C19_OrderIndependent ==
    ppc = "done" =>
        \A f \in BlockPermutations :
            BusIdPairs(ParseDdcutilDetect(Reordered(f)).monitors)
                = BusIdPairs(ReturnedMonitors)

====
